---- MODULE Spec2Model ----
(***************************************************************************)
(* Release metrics (release-metrics/metrics.py): tags of a repository are  *)
(* classified into releases and release candidates, the commits between    *)
(* the first and the last candidate of each release are parsed from the    *)
(* log, and files changed per directory and business days to release are   *)
(* aggregated for the charts.                                              *)
(*                                                                         *)
(* Strings are sequences of one-character strings, so that the regular     *)
(* expressions, split() and strptime() are computed character by           *)
(* character.  A Python dict is a sequence of records [k, v] in insertion  *)
(* order.                                                                  *)
(***************************************************************************)
EXTENDS Integers, Sequences, FiniteSets, TLC

VARIABLES
    pc,              \* position of the driver
    tag_date,        \* the repository: tag -> short date of the commit it names
    log_output,      \* the repository: version -> lines of `git log rc0...rcN`
    all_tags,        \* get_release_tags: output of `git tag`
    release_tags,    \* get_release_tags: tags matching r
    rc_tags,         \* get_release_tags: tags matching rc, without EE tags
    idx,             \* index of the loop of the running function
    rc_mapping,      \* get_release_tags: version -> rc tags
    release_commits, \* get_release_commits: version -> commit line -> files
    commit,          \* get_release_commits: the current commit line
    ln,              \* get_release_commits: index of the line being parsed
    parsed,          \* release_commits as parsed, before the bump filter
    release_files,   \* files_changed: version -> directory -> count
    total_files,     \* files_changed: directory -> count
    dirs_releases,   \* plot_directories_by_release_bars: directory -> counts
    release_days,    \* time_to_release: version -> release_date, delta
    num_days,        \* plot_release_days_by_commits_scatter: the x series
    num_commits,     \* plot_release_days_by_commits_scatter: the y series
    cwd,             \* the working directory of the process
    saved_cwd,       \* pushd: the local cwd
    target,          \* pushd: the argument x
    entered_from     \* the working directory before the with block

tagVars == <<all_tags, release_tags, rc_tags, rc_mapping>>
commitVars == <<release_commits, commit, ln, parsed>>
aggVars == <<release_files, total_files, dirs_releases>>
timeVars == <<release_days, num_days, num_commits>>
pushdVars == <<cwd, saved_cwd, target, entered_from>>
repoVars == <<tag_date, log_output>>
vars == <<pc, idx, repoVars, tagVars, commitVars, aggVars, timeVars, pushdVars>>

None == "None"

-----------------------------------------------------------------------------
(* Characters and strings *)

Digits == {"0", "1", "2", "3", "4", "5", "6", "7", "8", "9"}

HexChars == Digits \cup {"a", "b", "c", "d", "e", "f"}

\* The byte of a character, the order in which tag names are listed.
Ord(c) ==
    CASE c = " " -> 32 [] c = "," -> 44 [] c = "-" -> 45 [] c = "." -> 46
      [] c = "/" -> 47 [] c = "0" -> 48 [] c = "1" -> 49 [] c = "2" -> 50
      [] c = "3" -> 51 [] c = "4" -> 52 [] c = "5" -> 53 [] c = "6" -> 54
      [] c = "7" -> 55 [] c = "8" -> 56 [] c = "9" -> 57 [] c = ":" -> 58
      [] c = "a" -> 97 [] c = "b" -> 98 [] c = "c" -> 99 [] c = "d" -> 100
      [] c = "e" -> 101 [] c = "f" -> 102 [] c = "g" -> 103 [] c = "h" -> 104
      [] c = "i" -> 105 [] c = "m" -> 109 [] c = "n" -> 110 [] c = "o" -> 111
      [] c = "p" -> 112 [] c = "r" -> 114 [] c = "s" -> 115 [] c = "u" -> 117
      [] c = "v" -> 118 [] c = "x" -> 120
      [] OTHER -> 126

DigitVal(c) == Ord(c) - 48

\* s < t in byte order
RECURSIVE LexLess(_, _)
LexLess(s, t) ==
    IF t = <<>> THEN FALSE
    ELSE IF s = <<>> THEN TRUE
    ELSE IF Ord(Head(s)) # Ord(Head(t)) THEN Ord(Head(s)) < Ord(Head(t))
    ELSE LexLess(Tail(s), Tail(t))

\* The strings of a set in byte order.
RECURSIVE SortedByName(_)
SortedByName(S) ==
    IF S = {} THEN <<>>
    ELSE LET m == CHOOSE x \in S : \A y \in S \ {x} : LexLess(x, y)
         IN  <<m>> \o SortedByName(S \ {m})

\* sub in s
Contains(s, sub) ==
    \E i \in 1..(Len(s) - Len(sub) + 1) : SubSeq(s, i, i + Len(sub) - 1) = sub

\* The number of characters of the set cs at the positions i, i+1, ... of s.
RECURSIVE Run(_, _, _)
Run(s, i, cs) ==
    IF i <= Len(s) /\ s[i] \in cs THEN 1 + Run(s, i + 1, cs) ELSE 0

\* s.split(sep)[0]
FirstField(s, sep) ==
    IF \E i \in 1..Len(s) : s[i] = sep
    THEN LET p == CHOOSE i \in 1..Len(s) :
                      s[i] = sep /\ \A j \in 1..(i - 1) : s[j] # sep
         IN  SubSeq(s, 1, p - 1)
    ELSE s

\* s.split(sep), a sequence of strings
RECURSIVE Split(_, _)
Split(s, sep) ==
    IF \E i \in 1..Len(s) : s[i] = sep
    THEN <<FirstField(s, sep)>>
             \o Split(SubSeq(s, Len(FirstField(s, sep)) + 2, Len(s)), sep)
    ELSE <<s>>

-----------------------------------------------------------------------------
(* Python dicts: sequences of [k, v] in insertion order *)

Keys(d) == [i \in 1..Len(d) |-> d[i].k]

KeySet(d) == {d[i].k : i \in 1..Len(d)}

Get(d, key) == d[CHOOSE i \in 1..Len(d) : d[i].k = key].v

\* d[key] = val: a new key goes last, a known key keeps its place
Put(d, key, val) ==
    IF key \in KeySet(d)
    THEN [i \in 1..Len(d) |-> IF d[i].k = key THEN [k |-> key, v |-> val] ELSE d[i]]
    ELSE Append(d, [k |-> key, v |-> val])

-----------------------------------------------------------------------------
(* Program constants *)

EXCLUDED_TAGS ==
    << <<"0", ".", "1", "4", ".", "1">>,
       <<"0", ".", "1", "6", ".", "2">>,
       <<"0", ".", "2", "7", ".", "0">> >>

SINCE_YEAR == 2022

InSeq(x, s) == \E i \in 1..Len(s) : s[i] = x

-----------------------------------------------------------------------------
(* get_release_tags: the regular expressions *)

\* ^0\.[0-9]+\.[0-9]+ : the index of the last character matched, 0 without a
\* match.  Both runs of digits are greedy, and what follows a run is no digit.
r_version_end(s) ==
    LET n1 == Run(s, 3, Digits)
        n2 == Run(s, 4 + n1, Digits)
    IN  IF /\ Len(s) >= 2
           /\ s[1] = "0"
           /\ s[2] = "."
           /\ n1 >= 1
           /\ 3 + n1 <= Len(s)
           /\ s[3 + n1] = "."
           /\ n2 >= 1
        THEN 3 + n1 + n2
        ELSE 0

\* r_version.match(tag).group(); None.group() raises
r_version(s) ==
    IF r_version_end(s) = 0 THEN None ELSE SubSeq(s, 1, r_version_end(s))

\* r = ^0\.[0-9]+\.[0-9]+$
r_match(s) == r_version_end(s) # 0 /\ r_version_end(s) = Len(s)

\* rc = ^0\.[0-9]+\.[0-9]+[\-]*rc
rc_match(s) ==
    LET e == r_version_end(s)
        k == Run(s, e + 1, {"-"})
    IN  /\ e # 0
        /\ e + k + 2 <= Len(s)
        /\ s[e + k + 1] = "r"
        /\ s[e + k + 2] = "c"

NotEE(s) == ~Contains(s, <<"e", "e">>)

-----------------------------------------------------------------------------
(* get_date_for_tag *)

\* `git log -1 <tag> --date=short --pretty=format:%h,%ad,%s`: one line for a
\* tag of the repository, none for an unknown revision.
GitLogDate(tag) ==
    IF tag \in DOMAIN tag_date
    THEN << <<"a", "b", "c", "d", "e", "f", "1", "2", ",">> \o tag_date[tag]
              \o <<",", "f", "i", "x">> >>
    ELSE <<>>

\* datetime.strptime(date, "%Y-%m-%d").date()
strptime(s) ==
    [year  |-> 1000 * DigitVal(s[1]) + 100 * DigitVal(s[2])
                 + 10 * DigitVal(s[3]) + DigitVal(s[4]),
     month |-> 10 * DigitVal(s[6]) + DigitVal(s[7]),
     day   |-> 10 * DigitVal(s[9]) + DigitVal(s[10])]

get_date_for_tag(rc_tag) ==
    LET lines == GitLogDate(rc_tag)
    IN  IF lines = <<>> THEN None ELSE strptime(Split(lines[1], ",")[2])

-----------------------------------------------------------------------------
(* get_release_tags *)

\* `git tag`: the tags of the repository by name
GitTag == SortedByName(DOMAIN tag_date)

ReleaseTagsOf(tags) == SelectSeq(tags, r_match)

RcTagsOf(tags) == SelectSeq(SelectSeq(tags, rc_match), NotEE)

\* The iteration without the test for a release tag.
MapRcTagUnchecked(m, rel, tag) ==
    LET version == r_version(tag)
    IN  IF version \notin KeySet(m) THEN Put(m, version, <<tag>>)
        ELSE Put(m, version, Append(Get(m, version), tag))

\* One iteration of the loop over rc_tags.
MapRcTag(m, rel, tag) ==
    LET version == r_version(tag)
    IN  IF ~InSeq(version, rel) THEN m
        ELSE IF version \notin KeySet(m) THEN Put(m, version, <<tag>>)
        ELSE Put(m, version, Append(Get(m, version), tag))

RECURSIVE BuildRcMapping(_, _, _, _)
BuildRcMapping(m, rel, rcs, i) ==
    IF i > Len(rcs) THEN m
    ELSE BuildRcMapping(MapRcTag(m, rel, rcs[i]), rel, rcs, i + 1)

MoreThanOneRc(item) == Len(item.v) > 1

NotExcluded(item) == ~InSeq(item.k, EXCLUDED_TAGS)

SinceYear(item) == get_date_for_tag(item.k).year >= SINCE_YEAR

AtLeastOneRc(item) == Len(item.v) >= 1

\* The filter with the comparison off by one.
FilterSingleRcOffByOne(m) == SelectSeq(m, AtLeastOneRc)

FilterSingleRc(m) == SelectSeq(m, MoreThanOneRc)

FilterExcluded(m) == SelectSeq(m, NotExcluded)

\* get_release_tags without the filter by year.
FilterSinceYearSkipped(m) == m

FilterSinceYear(m) == SelectSeq(m, SinceYear)

get_release_tags ==
    FilterSinceYear(FilterExcluded(FilterSingleRc(
        BuildRcMapping(<<>>, ReleaseTagsOf(GitTag), RcTagsOf(GitTag), 1))))

-----------------------------------------------------------------------------
(* get_release_commits *)

\* `git log <first>...<last> --oneline --name-only`
GitLog(first, last) ==
    IF <<first, last>> \in DOMAIN log_output THEN log_output[<<first, last>>]
    ELSE <<>>

LogOf(rc) == GitLog(rc[1], rc[Len(rc)])

\* r_commit = ^([a-f0-9]{8}).*
r_commit_match(line) ==
    Len(line) >= 8 /\ \A i \in 1..8 : line[i] \in HexChars

\* One iteration of the loop over the lines of a release's log.  st holds
\* release_commits, commit and whether release_commits[v][commit] raised.
ParseLine(st, v, line) ==
    IF r_commit_match(line)
    THEN [st EXCEPT
             !.commit = line,
             !.release_commits =
                 IF line \notin KeySet(st.release_commits)
                 THEN Put(@, v, Put(Get(@, v), line, <<>>))
                 ELSE @]
    ELSE IF st.commit \in KeySet(Get(st.release_commits, v))
    THEN [st EXCEPT
             !.release_commits =
                 Put(@, v, Put(Get(@, v), st.commit,
                               Append(Get(Get(@, v), st.commit), line)))]
    ELSE [st EXCEPT !.raised = TRUE]

RECURSIVE ParseLines(_, _, _, _)
ParseLines(st, v, lines, i) ==
    IF i > Len(lines) \/ st.raised THEN st
    ELSE ParseLines(ParseLine(st, v, lines[i]), v, lines, i + 1)

RECURSIVE ParseReleases(_, _, _)
ParseReleases(st, m, i) ==
    IF i > Len(m) \/ st.raised THEN st
    ELSE ParseReleases(
             ParseLines([st EXCEPT !.release_commits = Put(@, m[i].k, <<>>)],
                        m[i].k, LogOf(m[i].v), 1),
             m, i + 1)

BumpMarker ==
    <<"c", "h", "o", "r", "e", ":", " ", "b", "u", "m", "p", " ",
      "v", "e", "r", "s", "i", "o", "n">>

NotBump(x) == ~Contains(x.k, BumpMarker)

IsBump(x) == Contains(x.k, BumpMarker)

\* The last loop with the test inverted.
ExcludeBumpInverted(rc) ==
    [i \in 1..Len(rc) |-> [k |-> rc[i].k, v |-> SelectSeq(rc[i].v, IsBump)]]

\* The last loop: every release's commits without the bump version commits.
ExcludeBump(rc) ==
    [i \in 1..Len(rc) |-> [k |-> rc[i].k, v |-> SelectSeq(rc[i].v, NotBump)]]

ParseStart == [release_commits |-> <<>>, commit |-> None, raised |-> FALSE]

\* Whether a KeyError was raised, and the mapping returned if none was.
get_release_commits ==
    LET st == ParseReleases(ParseStart, get_release_tags, 1)
    IN  [raised |-> st.raised,
         release_commits |->
             IF st.raised THEN <<>> ELSE ExcludeBump(st.release_commits)]

-----------------------------------------------------------------------------
(* files_changed and plot_directories_by_release_bars *)

Count(d, key) == IF key \in KeySet(d) THEN Get(d, key) ELSE 0

\* The total with 1 added whatever the release's count.
AddCountOfOne(d, key, n) == Put(d, key, Count(d, key) + 1)

\* if key not in d: d[key] = 0; d[key] += n
AddCount(d, key, n) == Put(d, key, Count(d, key) + n)

\* The loop over the files of a commit: top_dir = f.split("/")[0]
RECURSIVE CountFiles(_, _, _)
CountFiles(counts, files, i) ==
    IF i > Len(files) THEN counts
    ELSE CountFiles(AddCount(counts, FirstField(files[i], "/"), 1), files, i + 1)

\* The loop over the commits of a release.
RECURSIVE CountCommits(_, _, _)
CountCommits(counts, commits, i) ==
    IF i > Len(commits) THEN counts
    ELSE CountCommits(CountFiles(counts, commits[i].v, 1), commits, i + 1)

\* The loop over the directories of a release, adding to total_files.
RECURSIVE AddTotals(_, _, _)
AddTotals(total, files, i) ==
    IF i > Len(files) THEN total
    ELSE AddTotals(AddCount(total, files[i].k, files[i].v), files, i + 1)

\* sorted(items, key=count, reverse=True): stable, so an item goes after the
\* items already placed whose count is not less.
RECURSIVE SortDescending(_, _, _)
SortDescending(out, d, i) ==
    IF i > Len(d) THEN out
    ELSE LET n == Cardinality({j \in 1..Len(out) : out[j].v >= d[i].v})
         IN  SortDescending(
                 SubSeq(out, 1, n) \o <<d[i]>> \o SubSeq(out, n + 1, Len(out)),
                 d, i + 1)

CountAtLeastOne(item) == item.v >= 1

\* The filter with the comparison off by one.
FilterOutliersOffByOne(d) == SelectSeq(d, CountAtLeastOne)

CountMoreThanOne(item) == item.v > 1

FilterOutliers(d) == SelectSeq(d, CountMoreThanOne)

\* dirs_releases[d] = [files.get(d, 0) for _, files in release_files.items()]
BarSeries(files_by_dir_and_release, dir_names) ==
    [i \in 1..Len(dir_names) |->
        [k |-> dir_names[i],
         v |-> [j \in 1..Len(files_by_dir_and_release) |->
                   Count(files_by_dir_and_release[j].v, dir_names[i])]]]

-----------------------------------------------------------------------------
(* time_to_release and plot_release_days_by_commits_scatter *)

\* The days from 1970-01-01 to a date, as a date becomes a datetime64[D].
DaysSinceEpoch(date) ==
    LET y == IF date.month <= 2 THEN date.year - 1 ELSE date.year
        era == y \div 400
        yoe == y - era * 400
        mp == IF date.month > 2 THEN date.month - 3 ELSE date.month + 9
        doy == (153 * mp + 2) \div 5 + date.day - 1
        doe == yoe * 365 + yoe \div 4 - yoe \div 100 + doy
    IN  era * 146097 + doe - 719468

\* Monday is 0; 1970-01-05 was a Monday.
DayOfWeek(days) == (days - 4) % 7

\* The days of the week mask Mon-Fri from begin up to end, one by one.
RECURSIVE CountDays(_, _)
CountDays(begin, end) ==
    IF begin >= end THEN 0
    ELSE (IF DayOfWeek(begin) < 5 THEN 1 ELSE 0) + CountDays(begin + 1, end)

\* The days from one date to the other, weekends included.
calendar_days(begin, end, shifted) == end - begin

\* np.busday_count(begin, end): whole weeks of five days and the days left;
\* begin after end is counted from end to begin and negated, from the day
\* after end to the day of begin if the build of numpy shifts the range.
busday_count(begin, end, shifted) ==
    IF begin = end THEN 0
    ELSE LET swapped == begin > end
             b == IF swapped THEN (IF shifted THEN end + 1 ELSE end) ELSE begin
             e == IF swapped THEN (IF shifted THEN begin + 1 ELSE begin) ELSE end
             whole_weeks == (e - b) \div 7
             count == whole_weeks * 5 + CountDays(b + whole_weeks * 7, e)
         IN  IF swapped THEN -count ELSE count

\* One iteration of the loop over all_release_tags.
ReleaseDay(v, rcs, shifted) ==
    LET v_date == get_date_for_tag(v)
        first_rc_date == get_date_for_tag(rcs[1])
    IN  [release_date |-> v_date,
         delta |-> busday_count(DaysSinceEpoch(first_rc_date),
                                DaysSinceEpoch(v_date), shifted)]

ReleasedSinceYear(item) == item.v.release_date.year >= SINCE_YEAR

FilterByDate(d) == SelectSeq(d, ReleasedSinceYear)

\* a <= b for dates
DateLE(a, b) ==
    \/ a.year < b.year
    \/ a.year = b.year /\ a.month < b.month
    \/ a.year = b.year /\ a.month = b.month /\ a.day <= b.day

\* sorted(items, key=release_date): stable, so an item goes after the items
\* already placed whose date is not later.
RECURSIVE SortByReleaseDate(_, _, _)
SortByReleaseDate(out, d, i) ==
    IF i > Len(d) THEN out
    ELSE LET n == Cardinality({j \in 1..Len(out) :
                                   DateLE(out[j].v.release_date,
                                          d[i].v.release_date)})
         IN  SortByReleaseDate(
                 SubSeq(out, 1, n) \o <<d[i]>> \o SubSeq(out, n + 1, Len(out)),
                 d, i + 1)

JustDelta(d) == [i \in 1..Len(d) |-> [k |-> d[i].k, v |-> d[i].v.delta]]

\* release_commits[v] = len(commits.items())
CommitCounts(rc) == [i \in 1..Len(rc) |-> [k |-> rc[i].k, v |-> Len(rc[i].v)]]

-----------------------------------------------------------------------------
(* pushd *)

DET_ROOT == "det_root"

\* The generator without try and finally: a body that raises skips the rest.
pushd_exit_unless_raised(saved, current, raised) ==
    IF raised THEN current ELSE saved

\* finally: os.chdir(cwd); the working directory after the with block
pushd_exit(saved, current, raised) == saved

-----------------------------------------------------------------------------
(* The values of the variables a function has not yet set *)

TagsUnset ==
    all_tags = <<>> /\ release_tags = <<>> /\ rc_tags = <<>> /\ rc_mapping = <<>>

CommitsUnset ==
    release_commits = <<>> /\ commit = None /\ ln = 0 /\ parsed = <<>>

AggUnset == release_files = <<>> /\ total_files = <<>> /\ dirs_releases = <<>>

TimeUnset == release_days = <<>> /\ num_days = <<>> /\ num_commits = <<>>

PushdUnset ==
    cwd = "home" /\ saved_cwd = None /\ target = None /\ entered_from = None

-----------------------------------------------------------------------------
(* Tags and dates of the repositories explored *)

Rc(version, sep, n) == version \o sep \o <<"r", "c">> \o n

V19 == <<"0", ".", "1", "9", ".", "0">>

V20 == <<"0", ".", "2", "0", ".", "0">>

V14 == <<"0", ".", "1", "4", ".", "1">>

Dash == <<"-">>

V19Rc0ee == Rc(V19, Dash, <<"0">>) \o <<"-", "e", "e">>

Unversioned == <<"v", "1", ".", "0", "-", "r", "c", "0">>

TagUniverse ==
    { V19, Rc(V19, Dash, <<"0">>), Rc(V19, Dash, <<"2">>),
      Rc(V19, Dash, <<"1", "0">>), V19Rc0ee,
      V14, Rc(V14, Dash, <<"0">>), Rc(V14, <<>>, <<"1">>),
      Rc(V20, Dash, <<"0">>), Rc(V20, Dash, <<"1">>), Unversioned }

Fri20211231 == <<"2", "0", "2", "1", "-", "1", "2", "-", "3", "1">>

Mon20230102 == <<"2", "0", "2", "3", "-", "0", "1", "-", "0", "2">>

Sat20230107 == <<"2", "0", "2", "3", "-", "0", "1", "-", "0", "7">>

Mon20230109 == <<"2", "0", "2", "3", "-", "0", "1", "-", "0", "9">>

\* The most tags of a repository.
MaxTags == 5

\* The repositories of at most n tags of U, the release tags dated in RD and
\* the other tags in CD.
Repositories(U, n, RD, CD) ==
    UNION { { [t \in S |-> IF r_match(t) THEN rd[t] ELSE cd[t]] :
                rd \in [{t \in S : r_match(t)} -> RD],
                cd \in [{t \in S : ~r_match(t)} -> CD] } :
            S \in {T \in SUBSET U : Cardinality(T) <= n} }

-----------------------------------------------------------------------------
(* get_release_tags, statement by statement *)

TagsList ==
    /\ pc = "get_release_tags"
    /\ all_tags' = GitTag
    /\ pc' = "classify"
    /\ UNCHANGED <<idx, repoVars, release_tags, rc_tags, rc_mapping,
                   commitVars, aggVars, timeVars, pushdVars>>

TagsClassify ==
    /\ pc = "classify"
    /\ release_tags' = ReleaseTagsOf(all_tags)
    /\ rc_tags' = RcTagsOf(all_tags)
    /\ rc_mapping' = <<>>
    /\ idx' = 1
    /\ pc' = "map"
    /\ UNCHANGED <<repoVars, all_tags, commitVars, aggVars, timeVars, pushdVars>>

TagsMap ==
    /\ pc = "map"
    /\ idx <= Len(rc_tags)
    /\ rc_mapping' = MapRcTag(rc_mapping, release_tags, rc_tags[idx])
    /\ idx' = idx + 1
    /\ UNCHANGED <<pc, repoVars, all_tags, release_tags, rc_tags,
                   commitVars, aggVars, timeVars, pushdVars>>

TagsFilterSingleRc ==
    /\ pc = "map"
    /\ idx > Len(rc_tags)
    /\ rc_mapping' = FilterSingleRc(rc_mapping)
    /\ pc' = "filter_excluded"
    /\ UNCHANGED <<idx, repoVars, all_tags, release_tags, rc_tags,
                   commitVars, aggVars, timeVars, pushdVars>>

TagsFilterExcluded ==
    /\ pc = "filter_excluded"
    /\ rc_mapping' = FilterExcluded(rc_mapping)
    /\ pc' = "filter_year"
    /\ UNCHANGED <<idx, repoVars, all_tags, release_tags, rc_tags,
                   commitVars, aggVars, timeVars, pushdVars>>

TagsFilterSinceYear ==
    /\ pc = "filter_year"
    /\ rc_mapping' = FilterSinceYear(rc_mapping)
    /\ pc' = "tags_returned"
    /\ UNCHANGED <<idx, repoVars, all_tags, release_tags, rc_tags,
                   commitVars, aggVars, timeVars, pushdVars>>

InitTags ==
    /\ pc = "get_release_tags"
    /\ idx = 0
    /\ tag_date \in Repositories(TagUniverse, MaxTags,
                                 {Fri20211231, Mon20230109}, {Mon20230102})
    /\ log_output = <<>>
    /\ TagsUnset
    /\ CommitsUnset
    /\ AggUnset
    /\ TimeUnset
    /\ PushdUnset

NextTags ==
    \/ TagsList
    \/ TagsClassify
    \/ TagsMap
    \/ TagsFilterSingleRc
    \/ TagsFilterExcluded
    \/ TagsFilterSinceYear

SpecTags == InitTags /\ [][NextTags]_vars

-----------------------------------------------------------------------------
(* Properties of get_release_tags *)

\* The whole function and its statements agree.
TagsStepsAgree == pc = "tags_returned" => rc_mapping = get_release_tags

YearOfTag(tag) == strptime(tag_date[tag]).year

\* A release of the repository with two rc tags or more, not of
\* EXCLUDED_TAGS, and dated in SINCE_YEAR or later.
IsRetained(v) ==
    /\ v \in DOMAIN tag_date
    /\ r_match(v)
    /\ Cardinality({t \in DOMAIN tag_date :
                        rc_match(t) /\ NotEE(t) /\ r_version(t) = v}) >= 2
    /\ \A j \in 1..Len(EXCLUDED_TAGS) : v # EXCLUDED_TAGS[j]
    /\ YearOfTag(v) >= SINCE_YEAR

\* C1: every release of the mapping get_release_tags returns has at least
\* two rc tags, is not in EXCLUDED_TAGS and has a release tag dated in
\* SINCE_YEAR or later; and the commit mapping, the directory counts and the
\* timing output hold no other release.
C1_Retention ==
    /\ pc \notin {"map", "filter_excluded", "filter_year"} =>
           \A i \in 1..Len(rc_mapping) : Len(rc_mapping[i].v) >= 2
    /\ \A v \in (IF pc \in {"map", "filter_excluded", "filter_year"}
                 THEN {} ELSE KeySet(rc_mapping))
                \cup KeySet(release_commits) \cup KeySet(release_files)
                \cup KeySet(release_days) :
           IsRetained(v)

\* get_release_tags returned a release and dropped another that has rc tags.
TagsDroppedReached ==
    /\ pc = "tags_returned"
    /\ rc_mapping # <<>>
    /\ \E i \in 1..Len(rc_tags) :
           /\ InSeq(r_version(rc_tags[i]), release_tags)
           /\ r_version(rc_tags[i]) \notin KeySet(rc_mapping)

\* The number after "rc" in an rc tag.
RcOrdinal(tag) ==
    LET e == r_version_end(tag)
        b == e + Run(tag, e + 1, {"-"}) + 3
        n == Run(tag, b, Digits)
        F[i \in 0..n] ==
            IF i = 0 THEN 0 ELSE 10 * F[i - 1] + DigitVal(tag[b + i - 1])
    IN  F[n]

\* C2: in every release's list the first rc tag has the lowest ordinal and the
\* last rc tag the highest, for tags listed by name.
C2_FirstAndLastRc ==
    pc = "tags_returned" =>
        \A i \in 1..Len(rc_mapping) :
            LET rcs == rc_mapping[i].v
            IN  \A j \in 1..Len(rcs) :
                    /\ RcOrdinal(rcs[1]) <= RcOrdinal(rcs[j])
                    /\ RcOrdinal(rcs[j]) <= RcOrdinal(rcs[Len(rcs)])

\* C8: every key of the mapping is a release tag of the repository, every rc
\* tag listed under a key has that key as its version prefix, an rc tag whose
\* version is no release tag is in no list, and no match of r_version is None.
C8_NoEntryWithoutRelease ==
    pc \in {"map", "filter_excluded", "filter_year", "tags_returned"} =>
        /\ \A i \in 1..Len(rc_mapping) :
               /\ rc_mapping[i].k \in DOMAIN tag_date
               /\ r_match(rc_mapping[i].k)
               /\ \A j \in 1..Len(rc_mapping[i].v) :
                      /\ rc_mapping[i].v[j] \in DOMAIN tag_date
                      /\ r_version(rc_mapping[i].v[j]) = rc_mapping[i].k
        /\ \A t \in DOMAIN tag_date :
               (rc_match(t) /\ r_version(t) \notin DOMAIN tag_date) =>
                   /\ r_version(t) \notin KeySet(rc_mapping)
                   /\ \A i \in 1..Len(rc_mapping) : ~InSeq(t, rc_mapping[i].v)
        /\ \A i \in 1..Len(rc_tags) : r_version(rc_tags[i]) # None

\* An rc tag without a release tag was skipped and a release was mapped.
C8_Witness ==
    /\ pc = "tags_returned"
    /\ rc_mapping # <<>>
    /\ \E i \in 1..Len(rc_tags) : r_version(rc_tags[i]) \notin DOMAIN tag_date

-----------------------------------------------------------------------------
(* get_release_commits, statement by statement *)

V21 == <<"0", ".", "2", "1", ".", "0">>

\* A repository of four releases, all of 2023: 0.19.0 and 0.21.0 of two
\* candidates each, 0.14.1 of EXCLUDED_TAGS, and 0.20.0 of one candidate.
FourReleases ==
    [t \in {V19, Rc(V19, Dash, <<"0">>), Rc(V19, Dash, <<"2">>),
            V21, Rc(V21, Dash, <<"0">>), Rc(V21, Dash, <<"1">>),
            V14, Rc(V14, Dash, <<"0">>), Rc(V14, <<>>, <<"1">>),
            V20, Rc(V20, Dash, <<"0">>)} |->
        IF r_match(t) THEN Mon20230109 ELSE Mon20230102]

CommitFix == <<"a", "b", "c", "d", "e", "f", "1", "2", " ", "f", "i", "x">>

CommitBump == <<"1", "2", "3", "4", "a", "b", "c", "d", " ">> \o BumpMarker

\* A line of a log with hashes abbreviated to seven characters.
CommitShort == <<"a", "b", "c", "d", "e", "f", "1", " ", "f", "i", "x">>

FileAX == <<"a", "/", "x">>

FileBY == <<"b", "/", "y">>

LineUniverse == {CommitFix, CommitBump, CommitShort, FileAX}

\* The most lines of the logs of a repository, all releases together.
MaxLines == 3

\* The ranges `rc[0]...rc[-1]` of 0.19.0 and of 0.21.0.
TwoRanges ==
    << <<Rc(V19, Dash, <<"0">>), Rc(V19, Dash, <<"2">>)>>,
       <<Rc(V21, Dash, <<"0">>), Rc(V21, Dash, <<"1">>)>> >>

\* The logs of the ranges of 0.14.1 and of 0.20.0.
OtherLogs ==
    (<<Rc(V14, Dash, <<"0">>), Rc(V14, <<>>, <<"1">>)>> :> <<CommitFix, FileAX>>)
        @@ (<<Rc(V20, Dash, <<"0">>), Rc(V20, Dash, <<"0">>)>>
                :> <<CommitFix, FileBY>>)

\* The log outputs with at most n lines of U for the two ranges together.
LogOutputs(U, n) ==
    UNION { { (TwoRanges[1] :> a) @@ (TwoRanges[2] :> b) @@ OtherLogs :
              a \in [1..k[1] -> U], b \in [1..k[2] -> U] } :
            k \in {c \in (0..n) \X (0..n) : c[1] + c[2] <= n} }

CommitsTags ==
    /\ pc = "get_release_commits"
    /\ all_tags' = GitTag
    /\ release_tags' = ReleaseTagsOf(GitTag)
    /\ rc_tags' = RcTagsOf(GitTag)
    /\ rc_mapping' = get_release_tags
    /\ release_commits' = <<>>
    /\ commit' = None
    /\ idx' = 1
    /\ pc' = "next_release"
    /\ UNCHANGED <<repoVars, ln, parsed, aggVars, timeVars, pushdVars>>

CommitsRelease ==
    /\ pc = "next_release"
    /\ idx <= Len(rc_mapping)
    /\ release_commits' = Put(release_commits, rc_mapping[idx].k, <<>>)
    /\ ln' = 1
    /\ pc' = "parse_line"
    /\ UNCHANGED <<idx, repoVars, tagVars, commit, parsed, aggVars, timeVars,
                   pushdVars>>

CommitsLine ==
    /\ pc = "parse_line"
    /\ ln <= Len(LogOf(rc_mapping[idx].v))
    /\ LET st == ParseLine([release_commits |-> release_commits,
                            commit |-> commit, raised |-> FALSE],
                           rc_mapping[idx].k, LogOf(rc_mapping[idx].v)[ln])
       IN  /\ release_commits' = st.release_commits
           /\ commit' = st.commit
           /\ pc' = IF st.raised THEN "KeyError" ELSE pc
    /\ ln' = ln + 1
    /\ UNCHANGED <<idx, repoVars, tagVars, parsed, aggVars, timeVars, pushdVars>>

CommitsReleaseEnd ==
    /\ pc = "parse_line"
    /\ ln > Len(LogOf(rc_mapping[idx].v))
    /\ idx' = idx + 1
    /\ pc' = "next_release"
    /\ UNCHANGED <<repoVars, tagVars, commitVars, aggVars, timeVars, pushdVars>>

CommitsExcludeBump ==
    /\ pc = "next_release"
    /\ idx > Len(rc_mapping)
    /\ parsed' = release_commits
    /\ release_commits' = ExcludeBump(release_commits)
    /\ pc' = "commits_returned"
    /\ UNCHANGED <<idx, repoVars, tagVars, commit, ln, aggVars, timeVars,
                   pushdVars>>

InitCommits ==
    /\ pc = "get_release_commits"
    /\ idx = 0
    /\ tag_date = FourReleases
    /\ log_output \in LogOutputs(LineUniverse, MaxLines)
    /\ TagsUnset
    /\ CommitsUnset
    /\ AggUnset
    /\ TimeUnset
    /\ PushdUnset

NextCommits ==
    \/ CommitsTags
    \/ CommitsRelease
    \/ CommitsLine
    \/ CommitsReleaseEnd
    \/ CommitsExcludeBump

SpecCommits == InitCommits /\ [][NextCommits]_vars

-----------------------------------------------------------------------------
(* Properties of get_release_commits *)

\* The whole function and its statements agree, and the logs are those of
\* the ranges of the releases.
CommitsStepsAgree ==
    /\ pc = "next_release" =>
           {<<rc_mapping[i].v[1], rc_mapping[i].v[Len(rc_mapping[i].v)]>> :
                i \in 1..Len(rc_mapping)} = {TwoRanges[1], TwoRanges[2]}
    /\ pc = "commits_returned" =>
           get_release_commits
               = [raised |-> FALSE, release_commits |-> release_commits]
    /\ pc = "KeyError" => get_release_commits.raised

\* C3: the mapping returned holds no commit whose line contains "chore: bump
\* version", and every other commit parsed is still there, in its release,
\* with its files.
C3_BumpExcluded ==
    pc = "commits_returned" =>
        /\ Keys(release_commits) = Keys(parsed)
        /\ \A i \in 1..Len(release_commits) :
               /\ \A j \in 1..Len(release_commits[i].v) :
                      ~Contains(release_commits[i].v[j].k, BumpMarker)
               /\ \A j \in 1..Len(parsed[i].v) :
                      ~Contains(parsed[i].v[j].k, BumpMarker) =>
                          InSeq(parsed[i].v[j], release_commits[i].v)

\* A release was parsed with a bump commit and another commit that has files.
C3_Witness ==
    /\ pc = "commits_returned"
    /\ \E i \in 1..Len(parsed) :
           /\ \E j \in 1..Len(parsed[i].v) :
                  Contains(parsed[i].v[j].k, BumpMarker)
           /\ \E j \in 1..Len(parsed[i].v) :
                  /\ ~Contains(parsed[i].v[j].k, BumpMarker)
                  /\ parsed[i].v[j].v # <<>>

\* C9: when a line that is no commit line is handled, the current commit is
\* the most recent commit line of the same release's output, and the lookup
\* of its record does not fail.
C9_CurrentCommitOfRelease ==
    /\ pc # "KeyError"
    /\ (pc = "parse_line" /\ ln <= Len(LogOf(rc_mapping[idx].v))) =>
           LET lines == LogOf(rc_mapping[idx].v)
           IN  ~r_commit_match(lines[ln]) =>
                   \E j \in 1..(ln - 1) :
                       /\ r_commit_match(lines[j])
                       /\ lines[j] = commit
                       /\ \A h \in (j + 1)..(ln - 1) : ~r_commit_match(lines[h])

-----------------------------------------------------------------------------
(* files_changed, statement by statement *)

FileBX == <<"b", "/", "x">>

FileC == <<"c">>

FileUniverse == {FileAX, FileBX, FileBY, FileC}

\* The most files of a commit.
MaxFiles == 3

\* The name-only listings of a commit of at most n files of U.
FileLists(U, n) ==
    {SortedByName(S) : S \in {T \in SUBSET U : Cardinality(T) <= n}}

\* The logs of a range: empty, a commit and its files, or that and a bump
\* version commit before it.
ReleaseLogs ==
    {<<>>}
    \cup {<<CommitFix>> \o fs : fs \in FileLists(FileUniverse, MaxFiles)}
    \cup {<<CommitBump>> \o gs \o <<CommitFix>> \o fs :
              gs \in FileLists({FileC}, 1),
              fs \in FileLists(FileUniverse, MaxFiles)}

FilesCommits ==
    /\ pc = "files_changed"
    /\ all_tags' = GitTag
    /\ release_tags' = ReleaseTagsOf(GitTag)
    /\ rc_tags' = RcTagsOf(GitTag)
    /\ rc_mapping' = get_release_tags
    /\ LET got == get_release_commits
       IN  /\ pc' = IF got.raised THEN "KeyError" ELSE "count"
           /\ release_commits' = got.release_commits
    /\ release_files' = <<>>
    /\ idx' = 1
    /\ UNCHANGED <<repoVars, commit, ln, parsed, total_files, dirs_releases,
                   timeVars, pushdVars>>

FilesCount ==
    /\ pc = "count"
    /\ idx <= Len(release_commits)
    /\ release_files' =
           Put(release_files, release_commits[idx].k,
               CountCommits(<<>>, release_commits[idx].v, 1))
    /\ idx' = idx + 1
    /\ UNCHANGED <<pc, repoVars, tagVars, commitVars, total_files,
                   dirs_releases, timeVars, pushdVars>>

FilesCountEnd ==
    /\ pc = "count"
    /\ idx > Len(release_commits)
    /\ total_files' = <<>>
    /\ idx' = 1
    /\ pc' = "total"
    /\ UNCHANGED <<repoVars, tagVars, commitVars, release_files,
                   dirs_releases, timeVars, pushdVars>>

FilesTotal ==
    /\ pc = "total"
    /\ idx <= Len(release_files)
    /\ total_files' = AddTotals(total_files, release_files[idx].v, 1)
    /\ idx' = idx + 1
    /\ UNCHANGED <<pc, repoVars, tagVars, commitVars, release_files,
                   dirs_releases, timeVars, pushdVars>>

FilesSort ==
    /\ pc = "total"
    /\ idx > Len(release_files)
    /\ total_files' = SortDescending(<<>>, total_files, 1)
    /\ pc' = "filter"
    /\ UNCHANGED <<idx, repoVars, tagVars, commitVars, release_files,
                   dirs_releases, timeVars, pushdVars>>

FilesFilter ==
    /\ pc = "filter"
    /\ total_files' = FilterOutliers(total_files)
    /\ pc' = "plot"
    /\ UNCHANGED <<idx, repoVars, tagVars, commitVars, release_files,
                   dirs_releases, timeVars, pushdVars>>

\* plot_total_directories_pie(total_files) draws total_files as it is;
\* plot_directories_by_release_bars builds the series, and dir_names[0]
\* raises without a directory.
FilesPlot ==
    /\ pc = "plot"
    /\ dirs_releases' = BarSeries(release_files, Keys(total_files))
    /\ pc' = IF Keys(total_files) = <<>> THEN "IndexError" ELSE "files_done"
    /\ UNCHANGED <<idx, repoVars, tagVars, commitVars, release_files,
                   total_files, timeVars, pushdVars>>

InitFiles ==
    /\ pc = "files_changed"
    /\ idx = 0
    /\ tag_date = FourReleases
    /\ log_output \in
           {(TwoRanges[1] :> a) @@ (TwoRanges[2] :> b) @@ OtherLogs :
                a \in ReleaseLogs, b \in ReleaseLogs}
    /\ TagsUnset
    /\ CommitsUnset
    /\ AggUnset
    /\ TimeUnset
    /\ PushdUnset

NextFiles ==
    \/ FilesCommits
    \/ FilesCount
    \/ FilesCountEnd
    \/ FilesTotal
    \/ FilesSort
    \/ FilesFilter
    \/ FilesPlot

SpecFiles == InitFiles /\ [][NextFiles]_vars

-----------------------------------------------------------------------------
(* Properties of files_changed *)

\* The changed-file entries of release i whose first path segment is d.
EntriesOf(i, d) ==
    {e \in UNION {{<<j, h>> : h \in 1..Len(release_commits[i].v[j].v)} :
                      j \in 1..Len(release_commits[i].v)} :
        LET f == release_commits[i].v[e[1]].v[e[2]]
        IN  \/ f = d
            \/ Len(f) > Len(d) /\ SubSeq(f, 1, Len(d)) = d /\ f[Len(d) + 1] = "/"}

\* The first path segments of the files of the universe.
DirUniverse == {<<"a">>, <<"b">>, <<"c">>}

RECURSIVE SumOverReleases(_, _)
SumOverReleases(d, i) ==
    IF i = 0 THEN 0
    ELSE SumOverReleases(d, i - 1) + Count(release_files[i].v, d)

TotalsDone ==
    \/ pc = "total" /\ idx > Len(release_files)
    \/ pc = "filter"

\* C5: a directory's total is the sum of its counts of the releases, and its
\* count of a release is the number of changed-file entries of the release's
\* commits, bump version commits excluded, whose first path segment it is.
C5_TotalIsSumOfReleases ==
    /\ pc \in {"total", "filter", "plot", "files_done", "IndexError"} =>
           /\ Keys(release_files) = Keys(release_commits)
           /\ \A i \in 1..Len(release_files) : \A d \in DirUniverse :
                  /\ Count(release_files[i].v, d) = Cardinality(EntriesOf(i, d))
                  /\ d \in KeySet(release_files[i].v) <=> EntriesOf(i, d) # {}
    /\ TotalsDone =>
           \A d \in DirUniverse :
               /\ Count(total_files, d) = SumOverReleases(d, Len(release_files))
               /\ d \in KeySet(total_files) <=>
                      \E i \in 1..Len(release_files) : d \in KeySet(release_files[i].v)

\* A directory changed in both releases, twice in one of them, and a bump
\* version commit's files were left out.
C5_Witness ==
    /\ pc = "filter"
    /\ \E d \in DirUniverse :
           /\ Count(release_files[1].v, d) = 2
           /\ Count(release_files[2].v, d) >= 1
    /\ \E r \in DOMAIN log_output : InSeq(CommitBump, log_output[r])

TotalOf(d) ==
    Cardinality(UNION {{<<i, e>> : e \in EntriesOf(i, d)} :
                           i \in 1..Len(release_commits)})

\* C6: the directories of the pie chart and of the stacked bars are those
\* with a total above 1, by descending total, each with one value per release,
\* its count in the release or 0.
C6_NoiseFilter ==
    pc \in {"files_done", "IndexError"} =>
        /\ \A d \in DirUniverse : d \in KeySet(total_files) <=> TotalOf(d) > 1
        /\ \A i \in 1..Len(total_files) :
               /\ total_files[i].v = TotalOf(total_files[i].k)
               /\ \A j \in 1..Len(total_files) :
                      (i # j) => total_files[i].k # total_files[j].k
               /\ \A j \in (i + 1)..Len(total_files) :
                      total_files[i].v >= total_files[j].v
        /\ Keys(dirs_releases) = Keys(total_files)
        /\ \A i \in 1..Len(dirs_releases) :
               /\ Len(dirs_releases[i].v) = Len(release_commits)
               /\ \A j \in 1..Len(release_commits) :
                      dirs_releases[i].v[j]
                          = Cardinality(EntriesOf(j, dirs_releases[i].k))

\* A directory with a total of 1 was dropped, and of the two directories
\* drawn the one met second has the higher total and comes first.
C6_Witness ==
    /\ pc = "files_done"
    /\ \E d \in DirUniverse : TotalOf(d) = 1 /\ d \notin KeySet(total_files)
    /\ Len(total_files) = 2
    /\ total_files[1].v > total_files[2].v
    /\ release_files[1].v[1].k = total_files[2].k

\* A directory that is drawn has no change in one of the releases.
BarOfZeroReached ==
    /\ pc = "files_done"
    /\ \E i \in 1..Len(dirs_releases) : InSeq(0, dirs_releases[i].v)

-----------------------------------------------------------------------------
(* time_to_release, statement by statement *)

Wed20230118 == <<"2", "0", "2", "3", "-", "0", "1", "-", "1", "8">>

ReleaseDates == {Fri20211231, Mon20230102, Sat20230107, Mon20230109, Wed20230118}

Rc0Dates == {Mon20230102, Sat20230107, Mon20230109}

\* The repositories of the tags of FourReleases, 0.19.0, 0.21.0 and the rc0
\* of each dated on their own.
DatedReleases ==
    { [t \in DOMAIN FourReleases |->
          CASE t = V19 -> d[1]
            [] t = V21 -> d[2]
            [] t = Rc(V19, Dash, <<"0">>) -> d[3]
            [] t = Rc(V21, Dash, <<"0">>) -> d[4]
            [] OTHER -> Mon20230109] :
      d \in ReleaseDates \X ReleaseDates \X Rc0Dates \X Rc0Dates }

FixedLogs ==
    (TwoRanges[1] :> <<CommitFix, FileAX>>)
        @@ (TwoRanges[2] :> <<CommitBump, FileC, CommitFix, FileAX, FileBX>>)
        @@ OtherLogs

TimeTags ==
    /\ pc = "time_to_release"
    /\ all_tags' = GitTag
    /\ release_tags' = ReleaseTagsOf(GitTag)
    /\ rc_tags' = RcTagsOf(GitTag)
    /\ rc_mapping' = get_release_tags
    /\ release_days' = <<>>
    /\ idx' = 1
    /\ pc' = "release_day"
    /\ UNCHANGED <<repoVars, commitVars, aggVars, num_days, num_commits,
                   pushdVars>>

TimeReleaseDay ==
    /\ pc = "release_day"
    /\ idx <= Len(rc_mapping)
    /\ \E shifted \in BOOLEAN :
           release_days' =
               Put(release_days, rc_mapping[idx].k,
                   ReleaseDay(rc_mapping[idx].k, rc_mapping[idx].v, shifted))
    /\ idx' = idx + 1
    /\ UNCHANGED <<pc, repoVars, tagVars, commitVars, aggVars, num_days,
                   num_commits, pushdVars>>

TimeFilter ==
    /\ pc = "release_day"
    /\ idx > Len(rc_mapping)
    /\ release_days' = FilterByDate(release_days)
    /\ pc' = "sort"
    /\ UNCHANGED <<idx, repoVars, tagVars, commitVars, aggVars, num_days,
                   num_commits, pushdVars>>

TimeSort ==
    /\ pc = "sort"
    /\ release_days' = SortByReleaseDate(<<>>, release_days, 1)
    /\ pc' = "just_delta"
    /\ UNCHANGED <<idx, repoVars, tagVars, commitVars, aggVars, num_days,
                   num_commits, pushdVars>>

\* plot_release_days_bar draws release_days as it is.
TimeJustDelta ==
    /\ pc = "just_delta"
    /\ release_days' = JustDelta(release_days)
    /\ pc' = "scatter"
    /\ UNCHANGED <<idx, repoVars, tagVars, commitVars, aggVars, num_days,
                   num_commits, pushdVars>>

ScatterCommits ==
    /\ pc = "scatter"
    /\ LET got == get_release_commits
       IN  /\ pc' = IF got.raised THEN "KeyError" ELSE "series"
           /\ release_commits' = CommitCounts(got.release_commits)
    /\ UNCHANGED <<idx, repoVars, tagVars, commit, ln, parsed, aggVars,
                   timeVars, pushdVars>>

\* num_commits = [release_commits[v] for v in release_days.keys()]
ScatterSeries ==
    /\ pc = "series"
    /\ num_days' = [i \in 1..Len(release_days) |-> release_days[i].v]
    /\ IF KeySet(release_days) \subseteq KeySet(release_commits)
       THEN /\ num_commits' = [i \in 1..Len(release_days) |->
                                  Get(release_commits, release_days[i].k)]
            /\ pc' = "time_done"
       ELSE /\ num_commits' = <<>>
            /\ pc' = "KeyError"
    /\ UNCHANGED <<idx, repoVars, tagVars, commitVars, aggVars, release_days,
                   pushdVars>>

InitTime ==
    /\ pc = "time_to_release"
    /\ idx = 0
    /\ tag_date \in DatedReleases
    /\ log_output = FixedLogs
    /\ TagsUnset
    /\ CommitsUnset
    /\ AggUnset
    /\ TimeUnset
    /\ PushdUnset

NextTime ==
    \/ TimeTags
    \/ TimeReleaseDay
    \/ TimeFilter
    \/ TimeSort
    \/ TimeJustDelta
    \/ ScatterCommits
    \/ ScatterSeries

SpecTime == InitTime /\ [][NextTime]_vars

-----------------------------------------------------------------------------
(* Properties of time_to_release *)

DaysOfTag(tag) == DaysSinceEpoch(strptime(tag_date[tag]))

\* 2023-01-02 was a Monday.
IsBusinessDay(day) == (day - DaysSinceEpoch(strptime(Mon20230102))) % 7 < 5

BusinessDays(from, to) == Cardinality({d \in from..to : IsBusinessDay(d)})

DeltaOf(i) ==
    IF pc \in {"release_day", "sort", "just_delta"}
    THEN release_days[i].v.delta ELSE release_days[i].v

\* The dates the model reads are the days they name.
CalendarAgrees ==
    /\ DaysSinceEpoch(strptime(Fri20211231)) = 18992
    /\ DaysSinceEpoch(strptime(Mon20230102)) = 19359
    /\ DaysSinceEpoch(strptime(Wed20230118)) = 19375
    /\ DayOfWeek(19359) = 0

\* C7: a release's delta is the number of business days from the date of the
\* first rc tag of its list up to its release date, negative if the release
\* date is the earlier one: 0 for equal dates, 5 from a Monday to the next
\* Monday, as for 0.19.0 with rc0 of 2023-01-02 released on 2023-01-09; and
\* the releases come by ascending release date.
C7_BusinessDayDelta ==
    pc \in {"release_day", "sort", "just_delta", "scatter", "series", "time_done"} =>
        /\ \A i \in 1..Len(release_days) :
               LET v == release_days[i].k
                   from == DaysOfTag(Get(rc_mapping, v)[1])
                   to == DaysOfTag(v)
               IN  /\ from <= to => DeltaOf(i) = BusinessDays(from, to - 1)
                   /\ from > to =>
                          DeltaOf(i) \in {-BusinessDays(to, from - 1),
                                          -BusinessDays(to + 1, from)}
                   /\ from = to => DeltaOf(i) = 0
                   /\ (to = from + 7 /\ ~IsBusinessDay(from - 1)
                           /\ IsBusinessDay(from)) => DeltaOf(i) = 5
                   /\ (v = V19 /\ tag_date[Get(rc_mapping, v)[1]] = Mon20230102
                           /\ tag_date[v] = Mon20230109) => DeltaOf(i) = 5
        /\ pc \in {"just_delta", "scatter", "series", "time_done"} =>
               \A i \in 1..Len(release_days) : \A j \in (i + 1)..Len(release_days) :
                   DaysOfTag(release_days[i].k) <= DaysOfTag(release_days[j].k)

\* 0.19.0 with rc0 of Monday 2023-01-02 was released on Monday 2023-01-09, its
\* delta is 5, and 0.21.0, released two days earlier with a delta of 0 from
\* an rc0 of the same day, comes before it.
C7_Witness ==
    /\ pc = "time_done"
    /\ tag_date[Rc(V19, Dash, <<"0">>)] = Mon20230102
    /\ tag_date[V19] = Mon20230109
    /\ tag_date[V21] = Sat20230107
    /\ tag_date[Rc(V21, Dash, <<"0">>)] = Sat20230107
    /\ release_days = <<[k |-> V21, v |-> 0], [k |-> V19, v |-> 5]>>

\* A release dated before its rc0 has a negative delta.
NegativeDeltaReached ==
    pc = "time_done" /\ \E i \in 1..Len(release_days) : release_days[i].v < 0

\* C10: the filter by year of time_to_release removes no release that
\* get_release_tags returned, the releases of the timing mapping are those of
\* the commit counts, no lookup of a commit count misses, and the two series
\* plotted are of one length.
C10_SameReleases ==
    /\ pc \in {"sort", "just_delta", "scatter", "series", "time_done"} =>
           KeySet(release_days) = KeySet(rc_mapping)
    /\ pc \in {"series", "time_done"} =>
           /\ KeySet(release_days) = KeySet(release_commits)
           /\ Len(release_days) = Len(release_commits)
    /\ pc = "time_done" =>
           /\ Len(num_days) = Len(num_commits)
           /\ Len(num_days) = Len(release_days)
    /\ pc # "KeyError"

\* The scatter plot has a point, and a release of 2021 has none.
C10_Witness ==
    /\ pc = "time_done"
    /\ Len(num_commits) = 1
    /\ \E t \in DOMAIN tag_date : r_match(t) /\ YearOfTag(t) < SINCE_YEAR

-----------------------------------------------------------------------------
(* pushd, statement by statement *)

Dirs == {"home", DET_ROOT, "charts", "tmp"}

\* The most changes of directory of a body.
MaxBodySteps == 2

\* cwd = os.getcwd(); os.chdir(x), which raises for a directory that is not
\* there, before the try.
PushdEnter ==
    /\ pc = "with"
    /\ \E x \in Dirs \cup {"missing"} :
           /\ target' = x
           /\ entered_from' = cwd
           /\ saved_cwd' = cwd
           /\ IF x \in Dirs
              THEN cwd' = x /\ pc' = "body"
              ELSE cwd' = cwd /\ pc' = "enter_raised"
    /\ idx' = 0
    /\ UNCHANGED <<repoVars, tagVars, commitVars, aggVars, timeVars>>

PushdBodyChdir ==
    /\ pc = "body"
    /\ idx < MaxBodySteps
    /\ \E d \in Dirs : cwd' = d
    /\ idx' = idx + 1
    /\ UNCHANGED <<pc, repoVars, tagVars, commitVars, aggVars, timeVars,
                   saved_cwd, target, entered_from>>

PushdBodyReturns ==
    /\ pc = "body"
    /\ cwd' = pushd_exit(saved_cwd, cwd, FALSE)
    /\ pc' = "after_with"
    /\ UNCHANGED <<idx, repoVars, tagVars, commitVars, aggVars, timeVars,
                   saved_cwd, target, entered_from>>

PushdBodyRaises ==
    /\ pc = "body"
    /\ cwd' = pushd_exit(saved_cwd, cwd, TRUE)
    /\ pc' = "with_raised"
    /\ UNCHANGED <<idx, repoVars, tagVars, commitVars, aggVars, timeVars,
                   saved_cwd, target, entered_from>>

InitPushd ==
    /\ pc = "with"
    /\ idx = 0
    /\ tag_date = <<>>
    /\ log_output = <<>>
    /\ TagsUnset
    /\ CommitsUnset
    /\ AggUnset
    /\ TimeUnset
    /\ cwd \in Dirs
    /\ saved_cwd = None
    /\ target = None
    /\ entered_from = None

NextPushd ==
    \/ PushdEnter
    \/ PushdBodyChdir
    \/ PushdBodyReturns
    \/ PushdBodyRaises

SpecPushd == InitPushd /\ [][NextPushd]_vars

\* C4: after a with pushd(x) block, left by its end or by an exception of its
\* body, and after a pushd(x) that could not enter x, the working directory is
\* the one before the block.
C4_WorkingDirectoryRestored ==
    pc \in {"after_with", "with_raised", "enter_raised"} => cwd = entered_from

\* A body changed the directory again and raised.
C4_Witness ==
    /\ pc = "with_raised"
    /\ idx >= 1
    /\ target # entered_from

\* A block ended without an exception, and an entry failed.
PushdOtherExitsReached == pc \in {"after_with", "enter_raised"}

-----------------------------------------------------------------------------
(* The functions together, each run from its first statement *)

InitAll == InitTags \/ InitCommits \/ InitFiles \/ InitTime

NextAll == NextTags \/ NextCommits \/ NextFiles \/ NextTime

SpecAll == InitAll /\ [][NextAll]_vars

\* Of a repository with a release of 2021, the release 0.14.1 of
\* EXCLUDED_TAGS and the release 0.20.0 of one rc, only the fourth release
\* is in the mapping, the commit counts and the timing output.
C1_Witness ==
    /\ pc = "time_done"
    /\ {V14, V20} \subseteq DOMAIN tag_date
    /\ \E t \in {V19, V21} : YearOfTag(t) < SINCE_YEAR
    /\ Len(rc_mapping) = 1
    /\ KeySet(release_commits) = KeySet(rc_mapping)
    /\ KeySet(release_days) = KeySet(rc_mapping)

====
